---- MODULE Spec2Model ----
(***************************************************************************)
(* Model of the apiClient package (src/apiClient.go): a Client built by    *)
(* NewClient, SendRequest's retry loop and the single attempt send.        *)
(*                                                                         *)
(* One behaviour is a caller that owns one APIRequest and calls            *)
(* SendRequest on one Client, again and again.  The server's answer to     *)
(* each round trip is the environment's choice; from the second call on    *)
(* the server repeats what it answered during the call before.  A second   *)
(* caller (goroutine) shares the Client in SpecConcurrent and stays out of *)
(* the way in the other specifications.                                    *)
(***************************************************************************)
EXTENDS Integers, Sequences, FiniteSets, TLC

\* ------------------------------------------------------------------ bounds
MaxN == 2          \* largest MaxRetries a client is built with
MaxCalls == 2      \* SendRequest calls one caller makes in a row

\* ------------------------------------------------------------ input sets
Callers == {1, 2}
MaxRetriesSet == -1 .. MaxN
RetryDelays == {0, 2}
BaseURLs == {"http://h"}
Endpoints == {"/", "/%zz"}
Methods == {"GET", "G ET"}
HeaderNames == {<<"x", "-", "a">>, <<"X", "-", "A">>, <<"x", "-", "b">>}
HeaderValues == {"v1", "v2"}
HeaderMaps == UNION {[D -> HeaderValues] : D \in SUBSET HeaderNames}
Statuses == {200, 404, 500}
ServerBodies == {<<>>, <<104, 105>>}
ServerHeaders == {[k \in {<<"D", "a", "t", "e">>} |-> <<"now">>]}

\* the values a caller can put in APIRequest.Body (interface{})
NilBody == [t |-> "nil"]
RequestBodies == {NilBody, [t |-> "obj", k |-> "a", v |-> "1"], [t |-> "chan"]}

\* ------------------------------------------------------------ nil values
NilErr == [kind |-> "nil"]
NilResp == [nil |-> TRUE]
NilOutcome == [net |-> "none"]

Err(kind, n) == [kind |-> kind, id |-> n]

\* ------------------------------------------------- what the server can do
\* net = "fail": the round trip fails.  net = "ok": status line and headers
\* arrive, then the body bytes; cut = -1 is a clean end of stream, cut = k
\* is a connection reset after k body bytes.
ServerOutcomes ==
    {[net |-> "fail"]}
    \cup {[net |-> "ok", status |-> s, header |-> h, body |-> b, cut |-> -1] :
             s \in Statuses, h \in ServerHeaders, b \in ServerBodies}
    \cup {[net |-> "ok", status |-> 200, header |-> h, body |-> <<104, 105>>, cut |-> 1] :
             h \in ServerHeaders}

\* ------------------------------------------------------------- helpers
RECURSIVE Perms(_)
Perms(S) ==
    IF S = {} THEN {<<>>}
    ELSE UNION {{<<x>> \o q : q \in Perms(S \ {x})} : x \in S}

Last(s) == s[Len(s)]

\* fmt.Sprintf("%s%s", c.BaseURL, req.Endpoint)
BuildURL(base, endpoint) == base \o endpoint

\* (variant: the error of json.Marshal is dropped, reqBody, _ = json.Marshal(...))
Marshal_IgnoresError(n, body) ==
    CASE body.t = "obj" ->
           [data |-> <<"{", "\"", body.k, "\"", ":", body.v, "}">>, err |-> NilErr]
      [] body.t = "num" ->
           [data |-> <<body.v>>, err |-> NilErr]
      [] OTHER ->
           [data |-> <<>>, err |-> NilErr]

\* (variant: the body carries the ordinal of the attempt)
Marshal_TagsAttempt(n, body) ==
    CASE body.t = "obj" ->
           [data |-> <<"{", "\"", body.k, "\"", ":", body.v, "}", n>>, err |-> NilErr]
      [] body.t = "num" ->
           [data |-> <<body.v, n>>, err |-> NilErr]
      [] OTHER ->
           [data |-> <<>>, err |-> Err("SerializationError", n)]

\* json.Marshal(req.Body)
Marshal(n, body) ==
    CASE body.t = "obj" ->
           [data |-> <<"{", "\"", body.k, "\"", ":", body.v, "}">>, err |-> NilErr]
      [] body.t = "num" ->
           [data |-> <<body.v>>, err |-> NilErr]
      [] OTHER ->
           [data |-> <<>>, err |-> Err("SerializationError", n)]

\* http.NewRequest(req.Method, url, bytes.NewBuffer(reqBody))
ValidMethods == {"GET", "POST", "PUT", "DELETE"}
WellFormedURLs == {BuildURL(b, "/") : b \in BaseURLs}
NewRequest(n, method, url, reqBody) ==
    IF method \notin ValidMethods \cup {""} \/ url \notin WellFormedURLs
    THEN [request |-> NilResp, err |-> Err("RequestConstructionError", n)]
    ELSE [request |-> [Method |-> IF method = "" THEN "GET" ELSE method,
                       URL |-> url,
                       Header |-> <<>>,
                       Body |-> reqBody],
          err |-> NilErr]

\* textproto.CanonicalMIMEHeaderKey as used by Header.Set and Header.Get:
\* first letter and every letter after '-' upper case, the rest lower case
Lowers == <<"a", "b", "x">>
Uppers == <<"A", "B", "X">>
ToUpper(ch) ==
    IF \E i \in 1..Len(Lowers) : Lowers[i] = ch
    THEN Uppers[CHOOSE i \in 1..Len(Lowers) : Lowers[i] = ch] ELSE ch
ToLower(ch) ==
    IF \E i \in 1..Len(Uppers) : Uppers[i] = ch
    THEN Lowers[CHOOSE i \in 1..Len(Uppers) : Uppers[i] = ch] ELSE ch
RECURSIVE CanonFrom(_, _, _)
CanonFrom(key, i, upper) ==
    IF i > Len(key) THEN <<>>
    ELSE <<IF upper THEN ToUpper(key[i]) ELSE ToLower(key[i])>>
         \o CanonFrom(key, i + 1, key[i] = "-")
CanonicalKey(key) == CanonFrom(key, 1, TRUE)

\* (variant: the key is stored as written, request.Header[key] = []string{value})
HeaderSet_RawKey(h, key, value) ==
    [x \in DOMAIN h \cup {key} |-> IF x = key THEN <<value>> ELSE h[x]]

\* (variant: the header is replaced as a whole, only the key set last is kept)
HeaderSet_DropsOthers(h, key, value) ==
    [x \in {CanonicalKey(key)} |-> <<value>>]

\* request.Header.Set(key, value)
HeaderSet(h, key, value) ==
    [x \in DOMAIN h \cup {CanonicalKey(key)} |->
        IF x = CanonicalKey(key) THEN <<value>> ELSE h[x]]

\* Header.Get(key): the first value stored under the canonical key, "" if none
HeaderGet(h, key) ==
    IF CanonicalKey(key) \in DOMAIN h /\ h[CanonicalKey(key)] # <<>>
    THEN h[CanonicalKey(key)][1] ELSE ""

\* for key, value := range req.Headers { request.Header.Set(key, value) }
\* order is the order in which the Go map is iterated
RECURSIVE ApplyHeaders(_, _, _)
ApplyHeaders(h, headers, order) ==
    IF order = <<>> THEN h
    ELSE ApplyHeaders(HeaderSet(h, order[1], headers[order[1]]), headers, Tail(order))

\* c.HTTPClient.Do(request)
Do(n, request, outcome) ==
    IF outcome.net = "fail"
    THEN [response |-> NilResp, err |-> Err("NetworkError", n)]
    ELSE [response |-> [StatusCode |-> outcome.status,
                        Header |-> outcome.header,
                        Body |-> [data |-> outcome.body, cut |-> outcome.cut]],
          err |-> NilErr]

\* ioutil.ReadAll(response.Body): read until end of stream or an error
RECURSIVE ReadFrom(_, _, _, _)
ReadFrom(n, stream, pos, buf) ==
    IF stream.cut = pos THEN [data |-> buf, err |-> Err("IOError", n)]
    ELSE IF pos >= Len(stream.data) THEN [data |-> buf, err |-> NilErr]
    ELSE ReadFrom(n, stream, pos + 1, Append(buf, stream.data[pos + 1]))
\* (variant: the last byte read is dropped)
ReadAll_DropsLast(n, stream) ==
    LET r == ReadFrom(n, stream, 0, <<>>)
    IN  [r EXCEPT !.data = SubSeq(@, 1, Len(@) - 1)]

ReadAll(n, stream) == ReadFrom(n, stream, 0, <<>>)

\* logRequest / logResponse: one diagnostic record each
logRequest(request, body) ==
    [rec |-> "request", Method |-> request.Method, URL |-> request.URL,
     Headers |-> request.Header, Body |-> body]
logResponse(response, body) ==
    [rec |-> "response", Status |-> response.StatusCode,
     Headers |-> response.Header, Body |-> body]

\* (variant: the request is never logged)
RequestLog_Never(c, request, reqBody) == <<>>

\* if c.Debug { c.logRequest(request, reqBody) }
RequestLog(c, request, reqBody) ==
    IF c.Debug THEN <<logRequest(request, reqBody)>> ELSE <<>>

\* (variant: the response is logged whatever c.Debug is)
ResponseLog_Always(c, response, respBody) == <<logResponse(response, respBody)>>

\* if c.Debug { c.logResponse(response, respBody) }
ResponseLog(c, response, respBody) ==
    IF c.Debug THEN <<logResponse(response, respBody)>> ELSE <<>>

\* (variant: a status of 400 or more is turned into an error)
BuildResponse_ChecksStatus(n, response, respBody) ==
    IF response.StatusCode >= 400
    THEN [response |-> NilResp, err |-> Err("StatusError", n)]
    ELSE [response |-> [StatusCode |-> response.StatusCode,
                        Headers |-> response.Header,
                        Body |-> respBody],
          err |-> NilErr]

\* apiResponse := &APIResponse{...}; return apiResponse, nil
BuildResponse(n, response, respBody) ==
    [response |-> [StatusCode |-> response.StatusCode,
                   Headers |-> response.Header,
                   Body |-> respBody],
     err |-> NilErr]

\* ------------------------------------------------------------ Client.send
\* One attempt.  n is the ordinal of the attempt within its SendRequest call
\* (it only names the error value the attempt creates), order the iteration
\* order of req.Headers, outcome what the server does if it is reached.
\* The result holds what send returns (response, err) and what it did:
\* the request object and client as it leaves them, the records it logged,
\* the outbound request it built, whether the round trip was made, whether
\* the response body it opened was closed, and the steps in order.
\* (variant: a failed attempt uses up one of the client's retries)
SendResult_CountsDown(c, req, response, err, logged, outbound, reached, opened, closed, steps) ==
    [response |-> response, err |-> err,
     client |-> IF err # NilErr THEN [c EXCEPT !.MaxRetries = @ - 1] ELSE c,
     req |-> req,
     logged |-> logged, outbound |-> outbound, reached |-> reached,
     opened |-> opened, closed |-> closed, steps |-> steps]

SendResult(c, req, response, err, logged, outbound, reached, opened, closed, steps) ==
    [response |-> response, err |-> err, client |-> c, req |-> req,
     logged |-> logged, outbound |-> outbound, reached |-> reached,
     opened |-> opened, closed |-> closed, steps |-> steps]

\* (variant: response.Body.Close() is called at the end of send, not deferred)
DeferredClose_AtEndOnly(err) == err = NilErr

\* defer response.Body.Close(): the body is closed however send returns
DeferredClose(err) == TRUE

\* the name of a logging step, if the record was printed
LogStep(name, records) == IF records # <<>> THEN <<name>> ELSE <<>>
CloseStep(closed) == IF closed THEN <<"close">> ELSE <<>>

sendRead(c, req, n, request, reqBody, do, logged, steps) ==
    LET rd == ReadAll(n, do.response.Body)
        out == BuildResponse(n, do.response, rd.data)
        logged2 == ResponseLog(c, do.response, rd.data)
    IN  IF rd.err # NilErr
        THEN SendResult(c, req, NilResp, rd.err, logged, request, TRUE, TRUE,
                        DeferredClose(rd.err),
                        steps \o <<"readAll">> \o CloseStep(DeferredClose(rd.err)))
        ELSE SendResult(c, req, out.response, out.err,
                        logged \o logged2,
                        request, TRUE, TRUE, DeferredClose(out.err),
                        steps \o <<"readAll">>
                              \o LogStep("logResponse", logged2)
                              \o CloseStep(DeferredClose(out.err)))

sendDo(c, req, n, request, reqBody, outcome, steps) ==
    LET logged == RequestLog(c, request, reqBody)
        steps1 == steps \o LogStep("logRequest", logged) \o <<"do">>
        do == Do(n, request, outcome)
    IN  IF do.err # NilErr
        THEN SendResult(c, req, NilResp, do.err, logged, request, TRUE, FALSE, FALSE, steps1)
        ELSE sendRead(c, req, n, request, reqBody, do, logged, steps1)

send(c, req, n, order, outcome) ==
    LET url == BuildURL(c.BaseURL, req.Endpoint)
        m == IF req.Body # NilBody THEN Marshal(n, req.Body)
             ELSE [data |-> <<>>, err |-> NilErr]
        steps0 == IF req.Body # NilBody THEN <<"marshal">> ELSE <<>>
    IN  IF m.err # NilErr
        THEN SendResult(c, req, NilResp, m.err, <<>>, NilResp, FALSE, FALSE, FALSE, steps0)
        ELSE LET nr == NewRequest(n, req.Method, url, m.data)
             IN  IF nr.err # NilErr
                 THEN SendResult(c, req, NilResp, nr.err, <<>>, NilResp, FALSE, FALSE, FALSE,
                                 steps0 \o <<"newRequest">>)
                 ELSE sendDo(c, req, n,
                             [nr.request EXCEPT
                                 !.Header = ApplyHeaders(@, req.Headers, order)],
                             m.data, outcome,
                             steps0 \o <<"newRequest", "setHeaders">>)

\* ------------------------------------------------------ Client.SendRequest
\* (variant: attempt < c.MaxRetries)
LoopCond_Strict(c, attempt) == attempt < c.MaxRetries

\* attempt <= c.MaxRetries
LoopCond(c, attempt) == attempt <= c.MaxRetries

\* (variant: an error already held is kept)
AssignResult_KeepsFirstErr(old, new) == IF old.err # NilErr THEN old ELSE new

\* response, err = c.send(req)
AssignResult(old, new) == new

\* (variant: one attempt counter kept in the client and shared by all calls)
NextAttempt_Shared(att, p) == [q \in DOMAIN att |-> att[q] + 1]

\* (variant: the counter is not advanced)
NextAttempt_Stuck(att, p) == att

\* attempt++ on the call's own loop variable
NextAttempt(att, p) == [att EXCEPT ![p] = @ + 1]

\* (variant: the test is inverted, if err != nil)
ReturnsAfterAttempt_Inverted(err) == err # NilErr

\* (variant: errors made before the round trip are not retried)
ReturnsAfterAttempt_FatalKinds(err) ==
    err = NilErr \/ err.kind \in {"SerializationError", "RequestConstructionError"}

\* if err == nil { return response, nil }
ReturnsAfterAttempt(err) == err = NilErr

\* ------------------------------------------------------------------ state
VARIABLES
    client,       \* the *Client: BaseURL, Debug, MaxRetries, RetryDelay
    req,          \* req[p]: the caller's *APIRequest
    orig,         \* the client and requests as constructed
    pc,           \* pc[p]: "off", "idle", "loop", "sleep", "done"
    attempt,      \* attempt[p]: SendRequest's loop variable
    local,        \* local[p]: SendRequest's response and err variables
    ret,          \* ret[p]: what the call returned (response, err)
    calls,        \* calls[p]: SendRequest calls started by p
    sends,        \* sends[p]: send invocations of the current call
    sleeps,       \* sleeps[p]: time.Sleep invocations of the current call
    elapsed,      \* elapsed[p]: time slept by the current call
    attemptErrs,  \* attemptErrs[p]: the err of each attempt of the call
    served,       \* served[p]: the server's answers to the call's round trips
    last,         \* last[p]: the result of the latest send, with its outcome
    firstSent,    \* firstSent[p]: the outbound request of the call's first attempt
    openBodies,   \* openBodies[p]: response bodies the call opened and left open
    server,       \* the answers the server can give to a round trip
    prev,         \* prev[p]: the call before: served, ret, sends, sleeps
    log           \* the diagnostic records printed so far

vars == <<client, req, orig, pc, attempt, local, ret, calls, sends, sleeps,
          elapsed, attemptErrs, served, last, firstSent, openBodies, server,
          prev, log>>

NoLocal == [response |-> NilResp, err |-> NilErr]
NoLast == [ran |-> FALSE]
NoPrev == [served |-> <<>>, ret |-> NoLocal, sends |-> 0, sleeps |-> 0]

\* NewClient(baseURL, debug, maxRetries, retryDelay)
NewClient(baseURL, debug, maxRetries, retryDelay) ==
    [BaseURL |-> baseURL, Debug |-> debug,
     MaxRetries |-> maxRetries, RetryDelay |-> retryDelay]

\* the requests a caller makes: GET / with every header map, and every
\* method, endpoint and body with the header map of the package's test
TestHeaders == [k \in {<<"x", "-", "a">>} |-> "v1"]
APIRequests ==
    [Method : {"GET"}, Endpoint : {"/"}, Headers : HeaderMaps, Body : {NilBody}]
    \cup [Method : Methods, Endpoint : Endpoints, Headers : {TestHeaders},
          Body : RequestBodies]

\* the request of the package's test: GET / with one header and no body
TestRequest ==
    [Method |-> "GET", Endpoint |-> "/", Headers |-> TestHeaders, Body |-> NilBody]

\* the state after NewClient and after each caller has built its request,
\* but for the callers, their requests and the server
Constructed ==
    /\ \E b \in BaseURLs, d \in BOOLEAN, n \in MaxRetriesSet, rd \in RetryDelays :
          client = NewClient(b, d, n, rd)
    /\ orig = [client |-> client, req |-> req]
    /\ attempt = [p \in Callers |-> 0]
    /\ local = [p \in Callers |-> NoLocal]
    /\ ret = [p \in Callers |-> NoLocal]
    /\ calls = [p \in Callers |-> 0]
    /\ sends = [p \in Callers |-> 0]
    /\ sleeps = [p \in Callers |-> 0]
    /\ elapsed = [p \in Callers |-> 0]
    /\ attemptErrs = [p \in Callers |-> <<>>]
    /\ served = [p \in Callers |-> <<>>]
    /\ last = [p \in Callers |-> NoLast]
    /\ firstSent = [p \in Callers |-> NilResp]
    /\ openBodies = [p \in Callers |-> 0]
    /\ prev = [p \in Callers |-> NoPrev]
    /\ log = <<>>

\* one caller; the second one never calls
Init ==
    /\ req \in [Callers -> APIRequests]
    /\ req[2] = TestRequest
    /\ pc = [p \in Callers |-> IF p = 1 THEN "idle" ELSE "off"]
    /\ server = ServerOutcomes
    /\ Constructed

\* SendRequest is entered: var response *APIResponse; var err error; attempt := 0
Enter(p, before) ==
    /\ calls' = [calls EXCEPT ![p] = @ + 1]
    /\ prev' = [prev EXCEPT ![p] = before]
    /\ pc' = [pc EXCEPT ![p] = "loop"]
    /\ attempt' = [attempt EXCEPT ![p] = 0]
    /\ local' = [local EXCEPT ![p] = NoLocal]
    /\ ret' = [ret EXCEPT ![p] = NoLocal]
    /\ sends' = [sends EXCEPT ![p] = 0]
    /\ sleeps' = [sleeps EXCEPT ![p] = 0]
    /\ elapsed' = [elapsed EXCEPT ![p] = 0]
    /\ attemptErrs' = [attemptErrs EXCEPT ![p] = <<>>]
    /\ served' = [served EXCEPT ![p] = <<>>]
    /\ last' = [last EXCEPT ![p] = NoLast]
    /\ firstSent' = [firstSent EXCEPT ![p] = NilResp]
    /\ openBodies' = [openBodies EXCEPT ![p] = 0]
    /\ UNCHANGED <<client, req, orig, server, log>>

\* the caller's first call of SendRequest
Call(p) ==
    /\ pc[p] = "idle"
    /\ Enter(p, NoPrev)

\* the caller calls SendRequest again with the same request, after the call
\* before has returned
CallAgain(p) ==
    /\ pc[p] = "done"
    /\ calls[p] < MaxCalls
    /\ Enter(p, [served |-> served[p], ret |-> ret[p],
                 sends |-> sends[p], sleeps |-> sleeps[p]])

\* what the server may answer to the next round trip of p's call: what it
\* answered to the same round trip of the call before, if there was one
NextOutcomes(p) ==
    IF Len(served[p]) < Len(prev[p].served)
    THEN {prev[p].served[Len(served[p]) + 1]}
    ELSE server

\* one iteration of the loop up to the sleep: the loop condition holds,
\* response, err = c.send(req), and the return if err == nil
Attempt(p) ==
    /\ pc[p] = "loop"
    /\ LoopCond(client, attempt[p])
    /\ \E order \in Perms(DOMAIN req[p].Headers), outcome \in NextOutcomes(p) :
          LET r == send(client, req[p], sends[p] + 1, order, outcome)
              l == AssignResult(local[p], [response |-> r.response, err |-> r.err])
          IN  /\ local' = [local EXCEPT ![p] = l]
              /\ client' = r.client
              /\ req' = [req EXCEPT ![p] = r.req]
              /\ log' = log \o r.logged
              /\ sends' = [sends EXCEPT ![p] = @ + 1]
              /\ attemptErrs' = [attemptErrs EXCEPT ![p] = Append(@, r.err)]
              /\ served' = [served EXCEPT ![p] =
                               IF r.reached THEN Append(@, outcome) ELSE @]
              /\ last' = [last EXCEPT ![p] =
                             [ran |-> TRUE, result |-> r,
                              outcome |-> IF r.reached THEN outcome ELSE NilOutcome]]
              /\ firstSent' = [firstSent EXCEPT ![p] =
                                  IF sends[p] = 0 THEN r.outbound ELSE @]
              /\ openBodies' = [openBodies EXCEPT ![p] =
                                   IF r.opened /\ ~r.closed THEN @ + 1 ELSE @]
              /\ IF ReturnsAfterAttempt(l.err)
                 THEN /\ ret' = [ret EXCEPT ![p] = [response |-> l.response, err |-> NilErr]]
                      /\ pc' = [pc EXCEPT ![p] = "done"]
                 ELSE /\ ret' = ret
                      /\ pc' = [pc EXCEPT ![p] = "sleep"]
    /\ UNCHANGED <<orig, attempt, calls, sleeps, elapsed, server, prev>>

\* time.Sleep(c.RetryDelay), then attempt++
Sleep(p) ==
    /\ pc[p] = "sleep"
    /\ sleeps' = [sleeps EXCEPT ![p] = @ + 1]
    /\ elapsed' = [elapsed EXCEPT ![p] = @ + client.RetryDelay]
    /\ attempt' = NextAttempt(attempt, p)
    /\ pc' = [pc EXCEPT ![p] = "loop"]
    /\ UNCHANGED <<client, req, orig, local, ret, calls, sends, attemptErrs,
                   served, last, firstSent, openBodies,
                   server, prev, log>>

\* the loop condition fails: return response, err
Return(p) ==
    /\ pc[p] = "loop"
    /\ ~LoopCond(client, attempt[p])
    /\ ret' = [ret EXCEPT ![p] = local[p]]
    /\ pc' = [pc EXCEPT ![p] = "done"]
    /\ UNCHANGED <<client, req, orig, attempt, local, calls, sends, sleeps,
                   elapsed, attemptErrs, served, last, firstSent, openBodies, server,
          prev, log>>

Next ==
    \E p \in Callers : Call(p) \/ Attempt(p) \/ Sleep(p) \/ Return(p)

Spec == Init /\ [][Next]_vars

\* Every send and every time.Sleep of a call that was started finishes:
\* a call that can take a step takes one.
Step(p) == Attempt(p) \/ Sleep(p) \/ Return(p)
Fairness == \A p \in Callers : WF_vars(Step(p))
InitLive ==
    /\ Init
    /\ \A p \in Callers : req[p].Headers = TestHeaders
SpecLive == InitLive /\ [][Next]_vars /\ Fairness

\* The caller repeats its call, and the server repeats its answers.
InitRepeat ==
    /\ Init
    /\ \A p \in Callers : req[p].Headers = TestHeaders

NextRepeat ==
    \E p \in Callers :
        Call(p) \/ CallAgain(p) \/ Attempt(p) \/ Sleep(p) \/ Return(p)

SpecRepeat == InitRepeat /\ [][NextRepeat]_vars

\* Two goroutines call SendRequest on the same client, each with its own
\* request; their attempts and sleeps interleave in every way.
ConcurrentRequests ==
    {TestRequest,
     [TestRequest EXCEPT !.Body = [t |-> "obj", k |-> "a", v |-> "1"]],
     [TestRequest EXCEPT !.Method = "G ET"]}
ConcurrentServer ==
    {o \in ServerOutcomes :
        o.net = "fail" \/ (o.status = 200 /\ o.body = <<104, 105>> /\ o.cut = -1)}

InitConcurrent ==
    /\ req \in [Callers -> ConcurrentRequests]
    /\ pc = [p \in Callers |-> "idle"]
    /\ server = ConcurrentServer
    /\ Constructed

SpecConcurrent == InitConcurrent /\ [][Next]_vars

TypeOK ==
    /\ pc \in [Callers -> {"off", "idle", "loop", "sleep", "done"}]
    /\ client.MaxRetries \in MaxRetriesSet
    /\ \A p \in Callers : sends[p] = Len(attemptErrs[p])

\* --------------------------------------------------------------- properties
Failed(p, i) == attemptErrs[p][i] # NilErr
AllFailed(p) == sends[p] >= 1 /\ \A i \in 1..sends[p] : Failed(p, i)
Returned(p) == pc[p] = "done"

\* C1: with MaxRetries = N >= 0, a call never makes more than N+1 attempts,
\* and a call that has returned with every attempt failed made exactly N+1.
C1_ExactlyNPlusOneAttempts ==
    \A p \in Callers :
        client.MaxRetries >= 0 =>
            /\ sends[p] <= client.MaxRetries + 1
            /\ (Returned(p) /\ (\A i \in 1..sends[p] : Failed(p, i)))
                   => sends[p] = client.MaxRetries + 1

C1_Witness ==
    \E p \in Callers :
        /\ Returned(p) /\ AllFailed(p)
        /\ client.MaxRetries >= 2
        /\ sends[p] = client.MaxRetries + 1

\* C2: a call with MaxRetries = N >= 0 whose attempts all failed has slept
\* exactly N times when it returns: once between each two consecutive
\* attempts, never after the final one (never at all when N = 0).
C2_SleepsOnlyBetweenAttempts ==
    \A p \in Callers :
        (Returned(p) /\ AllFailed(p) /\ client.MaxRetries >= 0)
            => sleeps[p] = client.MaxRetries

\* C3: an attempt that succeeds is the last thing its call does: it is the
\* k-th attempt after k-1 failed ones, k <= N+1, the call has returned a
\* response with a nil error, and it slept k-1 times, all before attempt k.
C3_SuccessEndsTheCall ==
    \A p \in Callers : \A k \in 1..sends[p] :
        ~Failed(p, k) =>
            /\ k = sends[p]
            /\ k <= client.MaxRetries + 1
            /\ \A i \in 1..(k - 1) : Failed(p, i)
            /\ Returned(p)
            /\ ret[p].err = NilErr /\ ret[p].response # NilResp
            /\ sleeps[p] = k - 1

C3_Witness ==
    \E p \in Callers :
        /\ Returned(p)
        /\ sends[p] = 2 /\ client.MaxRetries = 2
        /\ Failed(p, 1) /\ ~Failed(p, 2)
        /\ sleeps[p] = 1

\* C4: an attempt whose round trip and body read completed made its call
\* return the response with the server's status code and a nil error,
\* whatever that status code is, and it is the call's last attempt.
Completed(p) ==
    /\ last[p].ran
    /\ last[p].outcome.net = "ok"
    /\ last[p].outcome.cut = -1

C4_AnyStatusIsSuccess ==
    \A p \in Callers :
        Completed(p) =>
            /\ Returned(p)
            /\ ret[p].err = NilErr
            /\ ret[p].response # NilResp
            /\ ret[p].response.StatusCode = last[p].outcome.status
            /\ ~Failed(p, sends[p])

C4_Witness ==
    \E p \in Callers :
        /\ Completed(p) /\ Returned(p)
        /\ last[p].outcome.status = 500
        /\ ret[p].err = NilErr /\ ret[p].response.StatusCode = 500
        /\ sends[p] < client.MaxRetries + 1

\* C5: a call that has returned after its last attempt failed returns the
\* error value that last attempt made, not the one of an earlier attempt.
ErrorKinds ==
    {"SerializationError", "RequestConstructionError", "NetworkError", "IOError"}

C5_LastErrorReturned ==
    \A p \in Callers :
        (Returned(p) /\ sends[p] >= 1 /\ Failed(p, sends[p])) =>
            /\ ret[p].err = attemptErrs[p][sends[p]]
            /\ ret[p].err.id = sends[p]
            /\ ret[p].err.kind \in ErrorKinds
            /\ ret[p].response = NilResp

C5_Witness ==
    \E p \in Callers :
        /\ Returned(p) /\ AllFailed(p) /\ sends[p] >= 2
        /\ attemptErrs[p][1].kind = "NetworkError"
        /\ ret[p].err = Err("IOError", sends[p])

\* C6: whatever the kinds of the errors, a failed attempt i is followed by
\* another attempt exactly when i < MaxRetries + 1: before that many
\* attempts a call does not return on a failure, and after that many it
\* makes no further attempt.
C6_RetryIgnoresErrorKind ==
    \A p \in Callers : \A i \in 1..sends[p] :
        Failed(p, i) =>
            /\ attemptErrs[p][i].kind \in ErrorKinds
            /\ (i < client.MaxRetries + 1) => (sends[p] > i \/ ~Returned(p))
            /\ (i >= client.MaxRetries + 1) => sends[p] = i

C6_Witness ==
    \E p \in Callers :
        /\ Returned(p) /\ AllFailed(p)
        /\ client.MaxRetries = 1 /\ sends[p] = 2
        /\ attemptErrs[p][1].kind = "IOError"
        /\ attemptErrs[p][2].kind = "NetworkError"

C6_WitnessBeforeRoundTrip ==
    \E p \in Callers :
        /\ Returned(p) /\ AllFailed(p)
        /\ client.MaxRetries = 2 /\ sends[p] = 3
        /\ attemptErrs[p][3].kind = "RequestConstructionError"

\* C7: a call that returns a nil error after an attempt returns the status
\* code, the headers and the body bytes the server sent on the call's last
\* round trip, which is the round trip of the attempt that succeeded.
C7_ResponseIsWhatServerSent ==
    \A p \in Callers :
        (Returned(p) /\ sends[p] >= 1 /\ ret[p].err = NilErr) =>
            /\ served[p] # <<>>
            /\ Last(served[p]).net = "ok"
            /\ ret[p].response.StatusCode = Last(served[p]).status
            /\ ret[p].response.Headers = Last(served[p]).header
            /\ ret[p].response.Body = Last(served[p]).body

C7_Witness ==
    \E p \in Callers :
        /\ Returned(p) /\ sends[p] = 2 /\ ret[p].err = NilErr
        /\ attemptErrs[p][1].kind = "IOError"
        /\ served[p][1].body = <<104, 105>>
        /\ served[p][2].body = <<>>
        /\ ret[p].response.Body = <<>>

C7_WitnessNonEmpty ==
    \E p \in Callers :
        /\ Returned(p) /\ sends[p] >= 1 /\ ret[p].err = NilErr
        /\ ret[p].response.Body = <<104, 105>>
        /\ ret[p].response.StatusCode = 404

\* C8: with Debug false nothing is ever logged.
C8_NoLogWithoutDebug ==
    ~client.Debug => log = <<>>

C8_Witness ==
    \E p \in Callers :
        /\ ~client.Debug /\ log = <<>>
        /\ Returned(p) /\ sends[p] = 3
        /\ attemptErrs[p][1].kind = "NetworkError"
        /\ attemptErrs[p][2].kind = "IOError"
        /\ ret[p].err = NilErr

\* C9 as stated: on the outbound request an attempt built, every name of
\* request.Headers carries the value the caller gave it, for every header map.
Outbound(p) == last[p].result.outbound
Built(p) == last[p].ran /\ Outbound(p) # NilResp

C9_EveryHeaderAsSet ==
    \A p \in Callers :
        Built(p) =>
            \A k \in DOMAIN req[p].Headers :
                HeaderGet(Outbound(p).Header, k) = req[p].Headers[k]

\* C9 amended: a name of request.Headers that no other name of the map
\* equals in canonical form is on the outbound request, under its canonical
\* form, with exactly the caller's value; names with the same canonical form
\* share one header, which carries the value of one of them.
SameHeader(p, k) ==
    {k2 \in DOMAIN req[p].Headers : CanonicalKey(k2) = CanonicalKey(k)}

C9_HeaderAsSetUnlessNamesCollide ==
    \A p \in Callers :
        Built(p) =>
            /\ DOMAIN Outbound(p).Header =
                   {CanonicalKey(k) : k \in DOMAIN req[p].Headers}
            /\ \A k \in DOMAIN req[p].Headers :
                   /\ \E k2 \in SameHeader(p, k) :
                          Outbound(p).Header[CanonicalKey(k)] = <<req[p].Headers[k2]>>
                   /\ SameHeader(p, k) = {k} =>
                          Outbound(p).Header[CanonicalKey(k)] = <<req[p].Headers[k]>>

C9_Witness ==
    \E p \in Callers :
        /\ Built(p)
        /\ DOMAIN req[p].Headers = {<<"x", "-", "a">>, <<"x", "-", "b">>}
        /\ req[p].Headers[<<"x", "-", "a">>] = "v1"
        /\ req[p].Headers[<<"x", "-", "b">>] = "v2"
        /\ Outbound(p).Header[<<"X", "-", "A">>] = <<"v1">>
        /\ Outbound(p).Header[<<"X", "-", "B">>] = <<"v2">>

\* the header map that refutes C9 as stated
C9_WitnessCollision ==
    \E p \in Callers :
        /\ Built(p)
        /\ DOMAIN req[p].Headers = {<<"x", "-", "a">>, <<"X", "-", "A">>}
        /\ req[p].Headers[<<"x", "-", "a">>] = "v1"
        /\ req[p].Headers[<<"X", "-", "A">>] = "v2"
        /\ Outbound(p).Header[<<"X", "-", "A">>] = <<"v2">>

\* C10: the client and the caller's request stay as they were constructed,
\* and a call repeated with the same request against a server that repeats
\* its answers makes the same attempts and sleeps and returns the same
\* response and error as the call before.
C10_NoStateKeptBetweenCalls ==
    /\ client = orig.client
    /\ req = orig.req
    /\ \A p \in Callers :
           (Returned(p) /\ calls[p] >= 2) =>
               /\ sends[p] = prev[p].sends
               /\ sleeps[p] = prev[p].sleeps
               /\ served[p] = prev[p].served
               /\ ret[p] = prev[p].ret

C10_Witness ==
    \E p \in Callers :
        /\ Returned(p) /\ calls[p] = 2
        /\ prev[p].sends = 2 /\ sends[p] = 2
        /\ prev[p].ret.err = NilErr /\ ret[p].err = NilErr
        /\ ret[p].response.StatusCode = 200
        /\ client.Debug

\* C11: under every interleaving of two calls on one client, each call
\* keeps its own attempt counter, and its attempt count, its response and
\* err variables and what it returns are those its own request and the
\* outcomes of its own attempts give.
OwnResult(p) ==
    IF sends[p] = 0 THEN NoLocal
    ELSE IF Failed(p, sends[p])
    THEN [response |-> NilResp, err |-> attemptErrs[p][sends[p]]]
    ELSE [response |-> [StatusCode |-> Last(served[p]).status,
                        Headers |-> Last(served[p]).header,
                        Body |-> Last(served[p]).body],
          err |-> NilErr]

C11_ConcurrentCallsIndependent ==
    \A p \in Callers :
        /\ attempt[p] = sleeps[p]
        /\ local[p] = OwnResult(p)
        /\ \A i \in 1..sends[p] : Failed(p, i) => attemptErrs[p][i].id = i
        /\ client.MaxRetries >= 0 => sends[p] <= client.MaxRetries + 1
        /\ Returned(p) =>
              /\ ret[p] = OwnResult(p)
              /\ client.MaxRetries >= 0 =>
                    (sends[p] = client.MaxRetries + 1 \/ ~Failed(p, sends[p]))

C11_Witness ==
    /\ Returned(1) /\ Returned(2)
    /\ client.MaxRetries = 2 /\ client.Debug
    /\ sends[1] = 2 /\ ret[1].err = NilErr
    /\ sends[2] = 3 /\ ret[2].err = Err("NetworkError", 3)
    /\ Len(log) >= 2
    /\ log[1].rec = "request" /\ log[2].rec = "request"
    /\ log[1].Body # log[2].Body

\* C12 as stated: the header set of the outbound request an attempt built
\* is the one every iteration order of request.Headers gives, for every
\* header map.
AnyOrderHeader(p) ==
    {ApplyHeaders(<<>>, req[p].Headers, o) : o \in Perms(DOMAIN req[p].Headers)}

C12_OrderIrrelevant ==
    \A p \in Callers :
        Built(p) => AnyOrderHeader(p) = {Outbound(p).Header}

\* C12 amended: the same, for every header map in which names that differ
\* only in letter case carry the same value.
NoConflict(headers) ==
    \A k1, k2 \in DOMAIN headers :
        CanonicalKey(k1) = CanonicalKey(k2) => headers[k1] = headers[k2]

C12_OrderIrrelevantWithoutConflict ==
    \A p \in Callers :
        (Built(p) /\ NoConflict(req[p].Headers))
            => AnyOrderHeader(p) = {Outbound(p).Header}

C12_Witness ==
    \E p \in Callers :
        /\ Built(p)
        /\ DOMAIN req[p].Headers = HeaderNames
        /\ req[p].Headers[<<"x", "-", "a">>] = "v1"
        /\ req[p].Headers[<<"X", "-", "A">>] = "v1"
        /\ req[p].Headers[<<"x", "-", "b">>] = "v2"
        /\ DOMAIN Outbound(p).Header = {<<"X", "-", "A">>, <<"X", "-", "B">>}

\* C13: the steps of an attempt run in the order of the code and the first
\* failing step ends it with a nil response and that step's error; an
\* attempt whose body cannot be serialised or whose request cannot be
\* constructed makes no round trip and prints nothing.
StepOrder ==
    <<"marshal", "newRequest", "setHeaders", "logRequest", "do", "readAll",
      "logResponse", "close">>
StepPos(step) == CHOOSE i \in 1..Len(StepOrder) : StepOrder[i] = step
InOrder(steps) ==
    /\ \A i \in 1..Len(steps) : \E j \in 1..Len(StepOrder) : StepOrder[j] = steps[i]
    /\ \A i, j \in 1..Len(steps) : i < j => StepPos(steps[i]) < StepPos(steps[j])
HasStep(steps, step) == \E i \in 1..Len(steps) : steps[i] = step

CannotSerialise(r) == r.Body.t = "chan"
CannotConstruct(r) == r.Method = "G ET" \/ r.Endpoint = "/%zz"

C13_FirstFailingStepEndsAttempt ==
    \A p \in Callers :
        last[p].ran =>
            LET r == last[p].result
            IN  /\ InOrder(r.steps)
                /\ r.err # NilErr => r.response = NilResp
                /\ CannotSerialise(req[p]) =>
                      /\ r.steps = <<"marshal">>
                      /\ r.err = Err("SerializationError", sends[p])
                      /\ r.response = NilResp
                      /\ ~r.reached /\ r.logged = <<>> /\ served[p] = <<>>
                /\ (~CannotSerialise(req[p]) /\ CannotConstruct(req[p])) =>
                      /\ Last(r.steps) = "newRequest"
                      /\ ~HasStep(r.steps, "do") /\ ~HasStep(r.steps, "setHeaders")
                      /\ r.err = Err("RequestConstructionError", sends[p])
                      /\ r.response = NilResp
                      /\ ~r.reached /\ r.logged = <<>> /\ served[p] = <<>>
                /\ (~CannotSerialise(req[p]) /\ ~CannotConstruct(req[p])) =>
                      /\ HasStep(r.steps, "setHeaders") /\ HasStep(r.steps, "do")
                      /\ r.reached
                      /\ r.err # NilErr =>
                            /\ r.err.kind = "NetworkError" => Last(r.steps) = "do"
                            /\ r.err.kind = "IOError" => ~HasStep(r.steps, "logResponse")

C13_Witness ==
    \E p \in Callers :
        /\ last[p].ran /\ client.Debug
        /\ CannotSerialise(req[p]) /\ req[p].Method = "GET" /\ req[p].Endpoint = "/"
        /\ sends[p] = 2
        /\ last[p].result.steps = <<"marshal">>
        /\ log = <<>>

C13_WitnessConstruct ==
    \E p \in Callers :
        /\ last[p].ran /\ client.Debug
        /\ req[p].Method = "G ET" /\ req[p].Body.t = "obj"
        /\ last[p].result.steps = <<"marshal", "newRequest">>
        /\ log = <<>>

\* C14: with Debug on, an attempt that builds its request prints the request
\* record before the round trip; it prints the response record, with the
\* whole body, only after the body was read to its end, and not at all when
\* the round trip or the read fails.  There are never more response records
\* than request records.
Before(steps, a, b) ==
    \E i, j \in 1..Len(steps) : i < j /\ steps[i] = a /\ steps[j] = b
Records(kind) == {i \in 1..Len(log) : log[i].rec = kind}

C14_LogOrder ==
    /\ Cardinality(Records("response")) <= Cardinality(Records("request"))
    /\ \A p \in Callers :
        (client.Debug /\ last[p].ran /\ last[p].result.reached) =>
            LET r == last[p].result
            IN  /\ Before(r.steps, "logRequest", "do")
                /\ r.logged # <<>> /\ r.logged[1].rec = "request"
                /\ r.err # NilErr =>
                      /\ Len(r.logged) = 1
                      /\ ~HasStep(r.steps, "logResponse")
                /\ r.err = NilErr =>
                      /\ Len(r.logged) = 2 /\ r.logged[2].rec = "response"
                      /\ r.logged[2].Body = last[p].outcome.body
                      /\ Before(r.steps, "readAll", "logResponse")
                      /\ Before(r.steps, "do", "logResponse")

C14_Witness ==
    \E p \in Callers :
        /\ client.Debug /\ Returned(p) /\ sends[p] = 3
        /\ attemptErrs[p][1].kind = "NetworkError"
        /\ attemptErrs[p][2].kind = "IOError"
        /\ ret[p].err = NilErr
        /\ Len(log) = 4
        /\ log[1].rec = "request" /\ log[2].rec = "request"
        /\ log[3].rec = "request" /\ log[4].rec = "response"

\* C15 as stated: every attempt that builds its request builds it from the
\* caller's request (method, BaseURL followed by Endpoint, headers), and
\* every attempt of a call sends exactly what the call's first attempt
\* sent: the same method, URL, headers and serialised body.
AsRequested(p) ==
    Built(p) =>
        /\ Outbound(p).Method = req[p].Method
        /\ Outbound(p).URL = client.BaseURL \o req[p].Endpoint
        /\ Outbound(p).Header \in AnyOrderHeader(p)
        /\ req[p].Body = NilBody => Outbound(p).Body = <<>>

C15_RetrySendsTheSame ==
    \A p \in Callers :
        last[p].ran => (AsRequested(p) /\ Outbound(p) = firstSent[p])

\* C15 amended: the same, but the headers are the same only when names of
\* request.Headers that differ only in letter case carry the same value.
C15_RetrySendsTheSameButConflicts ==
    \A p \in Callers :
        last[p].ran =>
            /\ AsRequested(p)
            /\ Built(p) <=> firstSent[p] # NilResp
            /\ Built(p) =>
                  /\ Outbound(p).Method = firstSent[p].Method
                  /\ Outbound(p).URL = firstSent[p].URL
                  /\ Outbound(p).Body = firstSent[p].Body
            /\ NoConflict(req[p].Headers) => Outbound(p) = firstSent[p]

C15_Witness ==
    \E p \in Callers :
        /\ client.Debug /\ sends[p] = 3 /\ Built(p)
        /\ req[p].Body.t = "obj"
        /\ Len(log) = 3
        /\ log[1].rec = "request" /\ log[1].Body # <<>>
        /\ log[2] = log[1] /\ log[3] = log[1]
        /\ Outbound(p).URL = "http://h/"
        /\ Outbound(p) = firstSent[p]

\* C16: for every client, negative MaxRetries included, a call that has
\* returned returned either a response and a nil error or a nil response
\* and an error, never nil and nil.
C16_ResponseOrError ==
    \A p \in Callers :
        Returned(p) =>
            \/ ret[p].err # NilErr /\ ret[p].response = NilResp
            \/ ret[p].err = NilErr /\ ret[p].response # NilResp

\* C17: a call that was started returns, provided each attempt and each
\* sleep finishes; within a call the attempt counter goes up by one at each
\* failed attempt and never down, and an attempt is made only while the
\* counter is at most MaxRetries, so at most MaxRetries + 1 are made.
Running(p) == pc[p] \in {"loop", "sleep"}

CounterOnlyAdvances(p) ==
    /\ (pc[p] = "sleep" /\ pc'[p] = "loop") => attempt'[p] = attempt[p] + 1
    /\ calls'[p] = calls[p] => attempt'[p] >= attempt[p]
    /\ sends'[p] = sends[p] + 1 =>
          /\ attempt[p] <= client.MaxRetries
          /\ sends'[p] = attempt[p] + 1

C17_Terminates ==
    /\ \A p \in Callers : Running(p) ~> Returned(p)
    /\ [][\A p \in Callers : CounterOnlyAdvances(p)]_vars

C17_Witness ==
    \E p \in Callers :
        /\ Returned(p) /\ client.MaxRetries = 2
        /\ attempt[p] = 3 /\ sends[p] = 3 /\ sleeps[p] = 3
        /\ ret[p].err # NilErr

\* C18: an attempt whose round trip returned a response has closed that
\* response's body when it returns, as its last step, whether the read of
\* the body succeeded or failed; a call leaves no body open.
C18_BodiesClosed ==
    \A p \in Callers :
        /\ openBodies[p] = 0
        /\ last[p].ran =>
              LET r == last[p].result
              IN  /\ r.opened <=> (r.reached /\ last[p].outcome.net = "ok")
                  /\ r.opened => (r.closed /\ Last(r.steps) = "close")
                  /\ ~r.opened => ~HasStep(r.steps, "close")

C18_Witness ==
    \E p \in Callers :
        /\ Returned(p) /\ AllFailed(p) /\ sends[p] = 3
        /\ \A i \in 1..3 : attemptErrs[p][i].kind = "IOError"
        /\ last[p].result.opened /\ last[p].result.closed
        /\ openBodies[p] = 0
====
